---------------------------- MODULE Spec2Model ----------------------------
(***************************************************************************)
(* NaPTAN Bus Stop Finder (src/script.js): the page's state, its event     *)
(* handlers and the functions they call.                                   *)
(*                                                                         *)
(* JavaScript values are tagged records; numbers are rationals n/(k*Scale) *)
(* whose results are exact while they fit a machine word and are rounded   *)
(* to 1/Scale otherwise (the doubles of the program round to 2^-53).       *)
(***************************************************************************)
EXTENDS Integers, Sequences, FiniteSets, TLC

(***************************************************************************)
(* JavaScript values                                                       *)
(***************************************************************************)

\* Resolution of the number model: four decimal places.
Scale == 100 * 100

\* Largest magnitude a product may reach (below 2^31).
MaxWord == 46340 * 46340

Undef == [t |-> "undef", n |-> 0, k |-> 1, s |-> ""]

Null == [t |-> "null", n |-> 0, k |-> 1, s |-> ""]

NaN == [t |-> "nan", n |-> 0, k |-> 1, s |-> ""]

\* The number n/(k*Scale).
Frac(n, k) == [t |-> "num", n |-> n, k |-> k, s |-> ""]

\* The whole number i.
Num(i) == Frac(i * Scale, 1)

\* The number with the decimal expansion n/Scale, e.g. Dec(515074) is 51.5074.
Dec(n) == Frac(n, 1)

Str(x) == [t |-> "str", n |-> 0, k |-> 1, s |-> x]

IsNum(v) == v.t = "num"

IsObject(v) == v.t = "object"

\* ToBoolean: undefined, null, NaN, 0 and "" are falsy.
Truthy(v) ==
    CASE v.t = "num" -> v.n # 0
      [] v.t = "str" -> v.s # ""
      [] v.t \in {"object", "array", "wrapper"} -> TRUE
      [] OTHER -> FALSE

\* a || b
Or(a, b) == IF Truthy(a) THEN a ELSE b

\* ToNumber: null and "" are 0, undefined and every other string of the
\* model (none spells a number) are NaN.
ToNumber(v) ==
    CASE v.t = "num" -> v
      [] v.t = "null" -> Num(0)
      [] v.t = "str" /\ v.s = "" -> Num(0)
      [] OTHER -> NaN

(***************************************************************************)
(* Arithmetic                                                              *)
(***************************************************************************)

Abs(a) == IF a < 0 THEN -a ELSE a

Sgn(a) == IF a < 0 THEN -1 ELSE IF a > 0 THEN 1 ELSE 0

Fits(a, b) == a = 0 \/ b = 0 \/ Abs(a) <= MaxWord \div Abs(b)

\* a / b rounded to the nearest integer, halves away from zero (b > 0).
RoundDiv(a, b) ==
    Sgn(a) * ((Abs(a) \div b) + (IF 2 * (Abs(a) % b) >= b THEN 1 ELSE 0))

\* A number in lowest terms of its divisor k.
RECURSIVE Gcd(_, _)
Gcd(a, b) == IF b = 0 THEN a ELSE Gcd(b, a % b)

Canon(n, k) ==
    LET g == Gcd(Abs(n), k)
        h == IF g = 0 THEN k ELSE g
    IN  Frac(n \div h, k \div h)

\* The numerator of v rounded to 1/Scale.
FxOf(v) == RoundDiv(v.n, v.k)

\* a * b / f rounded to the nearest integer, without forming a * b (f > 0).
MulDivR(a, b, f) ==
    LET big == IF Abs(a) >= Abs(b) THEN Abs(a) ELSE Abs(b)
        small == IF Abs(a) >= Abs(b) THEN Abs(b) ELSE Abs(a)
    IN  Sgn(a) * Sgn(b) *
        ((big \div f) * small + RoundDiv((big % f) * small, f))

MulDivFits(a, b, f) ==
    LET big == IF Abs(a) >= Abs(b) THEN Abs(a) ELSE Abs(b)
        small == IF Abs(a) >= Abs(b) THEN Abs(b) ELSE Abs(a)
    IN  Fits(f, small) /\ Fits((big \div f) + 1, small)

\* a * b / Scale for numerators at 1/Scale.
MulFx(a, b) == MulDivR(a, b, Scale)

\* One factor of a numerator and one of a denominator with their common
\* divisor removed: <<numerator, denominator>>.
Cancel(p, d) ==
    LET g == Gcd(Abs(p), d)
    IN  IF g = 0 THEN <<p, d>> ELSE <<p \div g, d \div g>>

\* x * y: the exact product when it fits a word; otherwise the product
\* rounded to 1/(Scale*Scale), or for a large product to 1/Scale.
JsMul(x, y) ==
    LET a == ToNumber(x)
        b == ToNumber(y)
    IN  IF ~IsNum(a) \/ ~IsNum(b) THEN NaN
        ELSE LET c1 == Cancel(a.n, Scale)
                 c2 == Cancel(b.n, c1[2])
                 c3 == Cancel(c1[1], b.k)
                 c4 == Cancel(c2[1], a.k)
             IN  IF Fits(c3[1], c4[1]) /\ Fits(c3[2], c4[2])
                      /\ Fits(c3[2] * c4[2], c2[2])
                 THEN Canon(c3[1] * c4[1], c3[2] * c4[2] * c2[2])
                 ELSE IF Fits(a.k, b.k) /\ MulDivFits(a.n, b.n, a.k * b.k)
                 THEN Canon(MulDivR(a.n, b.n, a.k * b.k), Scale)
                 ELSE Dec(MulFx(FxOf(a), FxOf(b)))

\* x / y: exact for a whole divisor, rounded to 1/Scale otherwise; a zero
\* divisor gives NaN for 0/0 and is not otherwise reached by the program.
JsDiv(x, y) ==
    LET a == ToNumber(x)
        b == ToNumber(y)
    IN  IF ~IsNum(a) \/ ~IsNum(b) \/ b.n = 0 THEN NaN
        ELSE IF b.k = 1 /\ b.n % Scale = 0 /\ Fits(a.k, b.n \div Scale)
             THEN Canon(Sgn(b.n) * a.n, a.k * (Abs(b.n) \div Scale))
        ELSE Dec(RoundDiv(Sgn(b.n) * FxOf(a) * Scale, Abs(FxOf(b))))

\* The numerator of v at 1/(Scale*Scale), when it fits.
FineFits(v) == MulDivFits(v.n, Scale, v.k)

FineOf(v) == MulDivR(v.n, Scale, v.k)

\* x + y on numbers (the program adds numbers only inside calculateDistance):
\* exact on a common divisor, else at 1/(Scale*Scale), else at 1/Scale.
JsAdd(x, y) ==
    LET a == ToNumber(x)
        b == ToNumber(y)
    IN  IF ~IsNum(a) \/ ~IsNum(b) THEN NaN
        ELSE IF a.k = b.k THEN Canon(a.n + b.n, a.k)
        ELSE IF FineFits(a) /\ FineFits(b)
             THEN Canon(FineOf(a) + FineOf(b), Scale)
        ELSE Dec(FxOf(a) + FxOf(b))

\* x - y
JsSub(x, y) ==
    LET b == ToNumber(y)
    IN  IF ~IsNum(b) THEN NaN ELSE JsAdd(x, Frac(-b.n, b.k))

\* Math.round: the nearest integer, halves toward +Infinity.
MathRound(x) ==
    LET a == ToNumber(x)
    IN  IF ~IsNum(a) THEN NaN
        ELSE Num((2 * a.n + a.k * Scale) \div (2 * a.k * Scale))

\* Math.PI to 1/Scale.
MathPI == Dec(31416)

\* The integer square root: the r with r*r <= x < (r+1)*(r+1).
RECURSIVE IsqrtIn(_, _, _)
IsqrtIn(x, lo, hi) ==
    IF lo >= hi THEN lo
    ELSE LET mid == (lo + hi + 1) \div 2
         IN  IF mid * mid <= x THEN IsqrtIn(x, mid, hi)
             ELSE IsqrtIn(x, lo, mid - 1)

Isqrt(x) == IsqrtIn(x, 0, 46340)

\* Math.sqrt: NaN below zero, else the root to 1/Scale.
MathSqrt(x) ==
    LET a == ToNumber(x)
    IN  IF ~IsNum(a) \/ a.n < 0 THEN NaN
        ELSE Dec(Isqrt(MulDivR(a.n, Scale, a.k)))

\* sin and cos by their Taylor series on numerators at 1/Scale; an argument
\* is first brought into [-pi, pi].
RECURSIVE SeriesFx(_, _, _, _, _)
SeriesFx(x, term, j, last, acc) ==
    IF j > last \/ term = 0 THEN acc
    ELSE LET t1 == RoundDiv(MulFx(term, x), j)
             t2 == -RoundDiv(MulFx(t1, x), j + 1)
         IN  SeriesFx(x, t2, j + 2, last, acc + t2)

ReduceFx(x) ==
    LET twoPi == 2 * MathPI.n
        r == x % twoPi
    IN  IF r > MathPI.n THEN r - twoPi ELSE r

SinFx(x) == LET r == ReduceFx(x) IN SeriesFx(r, r, 2, 18, r)

CosFx(x) == LET r == ReduceFx(x) IN SeriesFx(r, Scale, 1, 17, Scale)

MathSin(x) ==
    LET a == ToNumber(x) IN IF ~IsNum(a) THEN NaN ELSE Dec(SinFx(FxOf(a)))

MathCos(x) ==
    LET a == ToNumber(x) IN IF ~IsNum(a) THEN NaN ELSE Dec(CosFx(FxOf(a)))

\* atan on [0, 1] at 1/Scale: halve the angle, then the series
\* r - r^3/3 + r^5/5 - ...
RECURSIVE AtanSeriesFx(_, _, _, _)
AtanSeriesFx(r2, pow, j, acc) ==
    IF j > 15 \/ pow = 0 THEN acc
    ELSE LET p == -MulFx(pow, r2)
         IN  AtanSeriesFx(r2, p, j + 2, acc + RoundDiv(p, j))

AtanFx(r) ==
    LET h == RoundDiv(r * Scale, Scale + Isqrt((Scale + MulFx(r, r)) * Scale))
    IN  2 * AtanSeriesFx(MulFx(h, h), h, 3, h)

\* Math.atan2(y, x) on numerators at 1/Scale.
Atan2Fx(y, x) ==
    LET ay == Abs(y)
        ax == Abs(x)
        base == IF ax = 0 /\ ay = 0 THEN 0
                ELSE IF ay <= ax THEN AtanFx(RoundDiv(ay * Scale, ax))
                ELSE RoundDiv(MathPI.n, 2) - AtanFx(RoundDiv(ax * Scale, ay))
        ang == IF x < 0 THEN MathPI.n - base ELSE base
    IN  IF y < 0 THEN -ang ELSE ang

MathAtan2(y, x) ==
    LET a == ToNumber(y)
        b == ToNumber(x)
    IN  IF ~IsNum(a) \/ ~IsNum(b) THEN NaN
        ELSE Dec(Atan2Fx(FxOf(a), FxOf(b)))

(***************************************************************************)
(* Calculation functions                                                   *)
(***************************************************************************)

\* toRadians (script.js 115-117).
toRadians(degrees) == JsMul(degrees, JsDiv(MathPI, Num(180)))

\* 1.60934 to 1/Scale.
KmPerMile == Dec(16093)

\* `const v = e; ...`: e is evaluated once and named.
Const(e, Rest(_)) == Rest(e)

\* A calculateDistance that adds the longitudes where the program subtracts
\* them: what the identity of a point with itself must tell apart.
calculateDistanceSummed(lat1, lon1, lat2, lon2) ==
    LET R == Num(3959)
    IN  Const(toRadians(JsSub(lat2, lat1)), LAMBDA dLat :
        Const(toRadians(JsAdd(lon2, lon1)), LAMBDA dLon :
        Const(MathSin(JsDiv(dLat, Num(2))), LAMBDA sinLat :
        Const(MathSin(JsDiv(dLon, Num(2))), LAMBDA sinLon :
        Const(JsAdd(JsMul(sinLat, sinLat),
                    JsMul(JsMul(JsMul(MathCos(toRadians(lat1)),
                                      MathCos(toRadians(lat2))),
                                sinLon), sinLon)), LAMBDA a :
        Const(JsMul(Num(2), MathAtan2(MathSqrt(a),
                                      MathSqrt(JsSub(Num(1), a)))), LAMBDA c :
        Const(JsMul(R, c), LAMBDA distanceMiles :
        Const(JsMul(distanceMiles, KmPerMile), LAMBDA distanceKm :
            [miles |-> distanceMiles, km |-> distanceKm]))))))))

\* calculateDistance (script.js 91-108): the record {miles, km}.
calculateDistance(lat1, lon1, lat2, lon2) ==
    LET R == Num(3959)
    IN  Const(toRadians(JsSub(lat2, lat1)), LAMBDA dLat :
        Const(toRadians(JsSub(lon2, lon1)), LAMBDA dLon :
        Const(MathSin(JsDiv(dLat, Num(2))), LAMBDA sinLat :
        Const(MathSin(JsDiv(dLon, Num(2))), LAMBDA sinLon :
        Const(JsAdd(JsMul(sinLat, sinLat),
                    JsMul(JsMul(JsMul(MathCos(toRadians(lat1)),
                                      MathCos(toRadians(lat2))),
                                sinLon), sinLon)), LAMBDA a :
        Const(JsMul(Num(2), MathAtan2(MathSqrt(a),
                                      MathSqrt(JsSub(Num(1), a)))), LAMBDA c :
        Const(JsMul(R, c), LAMBDA distanceMiles :
        Const(JsMul(distanceMiles, KmPerMile), LAMBDA distanceKm :
            [miles |-> distanceMiles, km |-> distanceKm]))))))))

\* A speeds table with cycling at 10 mph.
speedsSlowCycling(key) ==
    CASE key = "walking" -> Num(3)
      [] key = "cycling" -> Num(10)
      [] key = "bus" -> Num(15)
      [] OTHER -> Undef

\* The speeds table of estimateTravelTime (script.js 126-130); a key the
\* table lacks reads as undefined.
speeds(key) ==
    CASE key = "walking" -> Num(3)
      [] key = "cycling" -> Num(12)
      [] key = "bus" -> Num(15)
      [] OTHER -> Undef

\* The property key a value is used as: a string is its own key, any other
\* value's spelling ("null", "NaN", digits) is no key of the speeds table.
PropertyKey(v) == IF v.t = "str" THEN v.s ELSE "#not-a-mode"

\* estimateTravelTime (script.js 125-134); an omitted (undefined) mode takes
\* the default 'walking'.
estimateTravelTime(distanceMiles, modeArg) ==
    LET mode == IF modeArg = Undef THEN Str("walking") ELSE modeArg
        hours == JsDiv(distanceMiles, speeds(PropertyKey(mode)))
    IN  MathRound(JsMul(hours, Num(60)))

(***************************************************************************)
(* Stop records and API responses                                          *)
(***************************************************************************)

\* A stop object as JSON.parse builds it: a property the record lacks reads
\* as undefined.
EmptyStop ==
    [t |-> "object",
     ATCOCode |-> Undef, atcoCode |-> Undef,
     CommonName |-> Undef, name |-> Undef,
     LocalityName |-> Undef, locality |-> Undef,
     StopType |-> Undef, stopType |-> Undef,
     Status |-> Undef, status |-> Undef,
     Latitude |-> Undef, latitude |-> Undef,
     Longitude |-> Undef, longitude |-> Undef]

\* A stop in the first naming variant.
StopOxford ==
    [EmptyStop EXCEPT !.ATCOCode = Str("490000173RF"),
                      !.CommonName = Str("Oxford Street"),
                      !.LocalityName = Str("London"),
                      !.StopType = Str("BCT"),
                      !.Status = Str("Active"),
                      !.Latitude = Dec(515154),
                      !.Longitude = Dec(-1419)]

\* A stop in the second naming variant.
StopPiccadilly ==
    [EmptyStop EXCEPT !.atcoCode = Str("1800SB04781"),
                      !.name = Str("Piccadilly Gardens"),
                      !.locality = Str("Manchester"),
                      !.stopType = Str("BCS"),
                      !.status = Str("inactive"),
                      !.latitude = Dec(534808),
                      !.longitude = Dec(-22426)]

\* A stop that carries a name only, with an apostrophe in it.
StopStJohns == [EmptyStop EXCEPT !.CommonName = Str("St John's Road")]

\* A stop with no coordinates and an empty first-variant name.
StopBare ==
    [EmptyStop EXCEPT !.CommonName = Str(""),
                      !.name = Str("Market Place"),
                      !.ATCOCode = Str("0500CCITY001")]

\* The array elements the API model answers with: stop objects and null.
StopPool == {StopOxford, StopPiccadilly, Null}

\* The strings of the model that hold an apostrophe.
HasApostrophe(v) == v.t = "str" /\ v.s \in {"St John's Road"}

\* String.prototype.toLowerCase on the strings of the model.
toLowerCase(x) ==
    CASE x = "Active" -> "active"
      [] x = "ACTIVE" -> "active"
      [] x = "Inactive" -> "inactive"
      [] x = "Oxford Street" -> "oxford street"
      [] x = "Piccadilly Gardens" -> "piccadilly gardens"
      [] x = "St John's Road" -> "st john's road"
      [] x = "Market Place" -> "market place"
      [] x = "London" -> "london"
      [] x = "Manchester" -> "manchester"
      [] x = "Unnamed Stop" -> "unnamed stop"
      [] x = "Unknown" -> "unknown"
      [] x = "Bus Stop" -> "bus stop"
      [] x = "BCT" -> "bct"
      [] x = "BCS" -> "bcs"
      [] x = "N/A" -> "n/a"
      [] x = "X" -> "x"
      [] x = "Y" -> "y"
      [] OTHER -> x

\* A JSON array.
Arr(items) == [t |-> "array", items |-> items]

\* A JSON object that is no stop list: its member property is m.
Wrapper(m) == [t |-> "wrapper", member |-> m]

\* All sequences over S of length at most n.
SeqUpTo(S, n) == UNION {[1..m -> S] : m \in 0..n}

\* slice(0, n): the first n elements, all of them when there are fewer.
Slice0(items, n) == SubSeq(items, 1, IF Len(items) < n THEN Len(items) ELSE n)

\* Array.isArray
IsArray(v) == v.t = "array"

\* The value of a template literal's ${v}: a string is itself, a number is
\* its digits (a string that carries the number), the rest their spelling.
Text(v) ==
    CASE v.t = "str" -> v
      [] v.t = "num" -> [t |-> "str", n |-> v.n, k |-> v.k, s |-> "#digits"]
      [] v.t = "nan" -> Str("NaN")
      [] v.t = "undef" -> Str("undefined")
      [] v.t = "null" -> Str("null")
      [] OTHER -> Str("[object Object]")

\* Number.prototype.toFixed(4) and toFixed(2): the digits of the number
\* rounded to that many decimals; "NaN" for NaN.
toFixed4(v) ==
    IF v.t = "nan" THEN Str("NaN")
    ELSE [t |-> "str", n |-> RoundDiv(v.n, v.k), k |-> 4, s |-> "#fixed"]

toFixed2(v) ==
    IF v.t = "nan" THEN Str("NaN")
    ELSE [t |-> "str", n |-> RoundDiv(v.n, v.k * 100), k |-> 2, s |-> "#fixed"]

(***************************************************************************)
(* searchNaPTANStops, after the response body is parsed (script.js 40-53)  *)
(***************************************************************************)

Returned(stops) == [kind |-> "returned", stops |-> stops, error |-> ""]

Threw(error) == [kind |-> "threw", stops |-> <<>>, error |-> error]

NoOutcome == [kind |-> "none", stops |-> <<>>, error |-> ""]

\* Lines 43-49: the value returned for the parsed body `data`, or the
\* TypeError of reading `member` of null, which the catch block rethrows.
stopsOfData(data) ==
    IF IsArray(data) THEN Returned(Slice0(data.items, 10))
    ELSE IF data.t = "null" \/ data.t = "undef"
         THEN Threw("TypeError: Cannot read properties of null")
    ELSE IF data.t = "wrapper" /\ Truthy(data.member) /\ IsArray(data.member)
         THEN Returned(Slice0(data.member.items, 10))
    ELSE Returned(<<>>)

(***************************************************************************)
(* UI functions                                                            *)
(***************************************************************************)

\* JSON.stringify(stop) read back as the object literal of the onclick
\* attribute: a NaN becomes null, every other value of a record is kept.
JsonValue(v) == IF v.t = "nan" THEN Null ELSE v

JsonLiteral(stop) ==
    [t |-> "object",
     ATCOCode |-> JsonValue(stop.ATCOCode), atcoCode |-> JsonValue(stop.atcoCode),
     CommonName |-> JsonValue(stop.CommonName), name |-> JsonValue(stop.name),
     LocalityName |-> JsonValue(stop.LocalityName),
     locality |-> JsonValue(stop.locality),
     StopType |-> JsonValue(stop.StopType), stopType |-> JsonValue(stop.stopType),
     Status |-> JsonValue(stop.Status), status |-> JsonValue(stop.status),
     Latitude |-> JsonValue(stop.Latitude), latitude |-> JsonValue(stop.latitude),
     Longitude |-> JsonValue(stop.Longitude),
     longitude |-> JsonValue(stop.longitude)]

\* The onclick attribute is delimited by apostrophes (script.js 189): one
\* inside the JSON text ends the attribute early and the button does nothing.
AttributeIntact(stop) ==
    \A v \in {stop.ATCOCode, stop.atcoCode, stop.CommonName, stop.name,
              stop.LocalityName, stop.locality, stop.StopType, stop.stopType,
              stop.Status, stop.status, stop.Latitude, stop.latitude,
              stop.Longitude, stop.longitude} : ~HasApostrophe(v)

\* The values displaySearchResults reads from one stop (script.js 156-162).
cardFields(stop) ==
    [atcoCode |-> Or(Or(stop.ATCOCode, stop.atcoCode), Str("N/A")),
     commonName |-> Or(Or(stop.CommonName, stop.name), Str("Unnamed Stop")),
     locality |-> Or(Or(stop.LocalityName, stop.locality), Str("Unknown")),
     stopType |-> Or(Or(stop.StopType, stop.stopType), Str("Bus Stop")),
     status |-> Or(Or(stop.Status, stop.status), Str("Active")),
     lat |-> Or(Or(stop.Latitude, stop.latitude), Num(0)),
     lon |-> Or(Or(stop.Longitude, stop.longitude), Num(0))]

\* The map callback throws a TypeError for a null element (156), for a
\* status that is no string (164) and for a coordinate that is no number
\* (187).
cardThrows(stop) ==
    \/ ~IsObject(stop)
    \/ LET f == cardFields(stop)
       IN  f.status.t # "str" \/ f.lat.t # "num" \/ f.lon.t # "num"

\* One stop card (script.js 166-193).
stopCard(stop) ==
    LET f == cardFields(stop)
    IN  [commonName |-> Text(f.commonName),
         atcoCode |-> Text(f.atcoCode),
         stopType |-> Text(f.stopType),
         locality |-> Text(f.locality),
         status |-> Text(f.status),
         statusClass |-> IF toLowerCase(f.status.s) = "active"
                         THEN "status-active" ELSE "status-inactive",
         lat |-> toFixed4(f.lat),
         lon |-> toFixed4(f.lon),
         hemisphere |-> IF f.lon.n >= 0 THEN "E" ELSE "W",
         onclickArg |-> JsonLiteral(stop),
         onclickIntact |-> AttributeIntact(stop)]

Panel(kind, cards, message) ==
    [kind |-> kind, cards |-> cards, message |-> message]

\* displaySearchResults (script.js 144-195): the new content of the
\* search-results panel, or a throw that leaves the panel as it is.
displaySearchResults(stops) ==
    IF Len(stops) = 0
    THEN [threw |-> FALSE, panel |-> Panel("noStops", <<>>, "No stops found")]
    ELSE IF \E i \in 1..Len(stops) : cardThrows(stops[i])
    THEN [threw |-> TRUE, panel |-> Panel("none", <<>>, "")]
    ELSE [threw |-> FALSE,
          panel |-> Panel("cards",
                          [i \in 1..Len(stops) |-> stopCard(stops[i])], "")]

\* showError (script.js 254-261).
showError(message) == Panel("error", <<>>, message)

\* The text useThisStop writes into the FROM or TO field (script.js 202-203,
\* 208, 214): `${commonName} (${atcoCode})`.
stopLabel(stop) ==
    [commonName |-> Text(Or(Or(stop.CommonName, stop.name), Str("Unnamed Stop"))),
     atcoCode |-> Text(Or(Or(stop.ATCOCode, stop.atcoCode), Str("N/A")))]

NoLabel == [commonName |-> Str(""), atcoCode |-> Str("")]

\* The coordinates displayDistanceResults passes to calculateDistance
\* (script.js 225-228).
distanceArgs(fromStop, toStop) ==
    [lat1 |-> Or(fromStop.Latitude, fromStop.latitude),
     lon1 |-> Or(fromStop.Longitude, fromStop.longitude),
     lat2 |-> Or(toStop.Latitude, toStop.latitude),
     lon2 |-> Or(toStop.Longitude, toStop.longitude)]

\* displayDistanceResults (script.js 224-247): the new content of the
\* distance panel.
displayDistanceResults(fromStop, toStop) ==
    Const(distanceArgs(fromStop, toStop), LAMBDA p :
    Const(calculateDistance(p.lat1, p.lon1, p.lat2, p.lon2), LAMBDA distance :
    Const(estimateTravelTime(distance.miles, Str("walking")), LAMBDA walkTime :
    Const(estimateTravelTime(distance.miles, Str("bus")), LAMBDA busTime :
        [kind |-> "result",
         miles |-> toFixed2(distance.miles),
         km |-> toFixed2(distance.km),
         walk |-> Text(walkTime),
         bus |-> Text(busTime),
         from |-> Text(Or(fromStop.CommonName, fromStop.name)),
         to |-> Text(Or(toStop.CommonName, toStop.name))]))))

\* The distance panel as the page's markup leaves it.
NoDistance ==
    [kind |-> "markup", miles |-> Str(""), km |-> Str(""), walk |-> Str(""),
     bus |-> Str(""), from |-> Str(""), to |-> Str("")]

(***************************************************************************)
(* The page: state                                                         *)
(***************************************************************************)

\* Longest stop list the API model answers a search of the page with.
MaxStops == 1

\* Searches issued in one behaviour.
MaxRequests == 2

VARIABLES
    selectedFromStop,   \* script.js 6
    selectedToStop,     \* script.js 7
    searchInput,        \* the value of #stopSearch
    searchBtn,          \* [disabled]
    searchBtnText,      \* style.display
    searchSpinner,      \* style.display
    searchResults,      \* the content of #searchResults
    fromStopInput,      \* the value of #fromStop
    toStopInput,        \* [value, readOnly, placeholder] of #toStop
    distanceResults,    \* the content of #distanceResults
    alertMsg,           \* the last alert shown
    pc,                 \* where the search started by the last click stands
    request,            \* the last request issued by fetch
    requests,           \* how many requests fetch has issued
    response,           \* what the last fetch promise settled with
    data,               \* what the response.json() promise settled with
    result,             \* what the searchNaPTANStops promise settled with
    call,               \* a direct call of one function, and
    ret                 \* what it returned

uiVars == <<selectedFromStop, selectedToStop, searchInput, searchBtn,
            searchBtnText, searchSpinner, searchResults, fromStopInput,
            toStopInput, distanceResults, alertMsg>>

netVars == <<pc, request, requests, response, data, result>>

callVars == <<call, ret>>

vars == <<uiVars, netVars, callVars>>

\* What the user may have typed into the search box.
Queries == {"", "   ", "oxford st"}

\* String.prototype.trim on the queries.
trim(q) == IF q = "   " THEN "" ELSE q

\* encodeURIComponent on the queries.
encodeURIComponent(q) == IF q = "oxford st" THEN "oxford%20st" ELSE q

NoRequest == [query |-> "", whileDisabled |-> FALSE, whileSpinning |-> FALSE]

NoResponse == [kind |-> "none", ok |-> FALSE, status |-> 0]

NoData == [kind |-> "none", body |-> Undef]

\* The bodies the API model answers with: a stop list, a stop list under
\* `member`, and documents of neither shape.
StopLists == SeqUpTo(StopPool, MaxStops)

Bodies ==
    {Arr(s) : s \in StopLists} \cup {Wrapper(Arr(s)) : s \in StopLists}
    \cup {Wrapper(Undef), Wrapper(Str("X")), Null, Dec(70000)}

\* alert(): the text shown, and the stop name a selection's text starts with.
Alert(text, name) == [text |-> text, name |-> name]

NoAlert == Alert("", Str(""))

NoCall == [fn |-> "none"]

NoRet == [kind |-> "none"]

\* The page after script.js has run: nothing selected, no search started.
\* index.html is not among the sources: the TO field is read-only or not.
InitPage ==
    /\ selectedFromStop = Null
    /\ selectedToStop = Null
    /\ searchInput = ""
    /\ searchBtn = [disabled |-> FALSE]
    /\ searchBtnText = ""
    /\ searchSpinner = ""
    /\ searchResults = Panel("markup", <<>>, "")
    /\ fromStopInput = NoLabel
    /\ toStopInput \in {[value |-> NoLabel, readOnly |-> r, placeholder |-> "markup"]
                          : r \in BOOLEAN}
    /\ distanceResults = NoDistance
    /\ alertMsg = NoAlert
    /\ pc = "idle"
    /\ request = NoRequest
    /\ requests = 0
    /\ response = NoResponse
    /\ data = NoData
    /\ result = NoOutcome

Init == InitPage /\ call = NoCall /\ ret = NoRet

\* A promise has settled and its continuation is queued: it runs before any
\* further event is dispatched.
MicrotaskPending == pc \in {"fetchSettled", "jsonSettled", "searchSettled"}

(***************************************************************************)
(* The page: event handlers                                                *)
(***************************************************************************)

\* The user edits the search box.
TypeQuery ==
    /\ ~MicrotaskPending
    /\ \E q \in Queries : q # searchInput /\ searchInput' = q
    /\ UNCHANGED <<selectedFromStop, selectedToStop, searchBtn, searchBtnText,
                   searchSpinner, searchResults, fromStopInput, toStopInput,
                   distanceResults, alertMsg, netVars, callVars>>

\* A click listener that does not look at the query before it searches.
searchBtnOnClickUnchecked ==
    /\ requests < MaxRequests
    /\ searchBtn' = [disabled |-> TRUE]
    /\ searchBtnText' = "none"
    /\ searchSpinner' = "inline-block"
    /\ searchResults' = Panel("searching", <<>>, "Searching NaPTAN database...")
    /\ request' = [query |-> encodeURIComponent(trim(searchInput)),
                   whileDisabled |-> TRUE, whileSpinning |-> TRUE]
    /\ requests' = requests + 1
    /\ pc' = "awaitFetch"
    /\ UNCHANGED <<selectedFromStop, selectedToStop, searchInput,
                   fromStopInput, toStopInput, distanceResults,
                   alertMsg, response, data, result>>

\* The click listener of searchBtn up to its await (script.js 268-283), with
\* searchNaPTANStops up to its first await (29-34).
searchBtnOnClick ==
    LET query == trim(searchInput)
    IN  IF query = ""
        THEN /\ alertMsg' = Alert("Please enter a search term", Str(""))
             /\ UNCHANGED <<selectedFromStop, selectedToStop, searchInput,
                            searchBtn, searchBtnText, searchSpinner,
                            searchResults, fromStopInput, toStopInput,
                            distanceResults, netVars>>
        ELSE /\ requests < MaxRequests
             /\ searchBtn' = [disabled |-> TRUE]
             /\ searchBtnText' = "none"
             /\ searchSpinner' = "inline-block"
             /\ searchResults' =
                    Panel("searching", <<>>, "Searching NaPTAN database...")
             /\ request' = [query |-> encodeURIComponent(query),
                            whileDisabled |-> searchBtn'.disabled,
                            whileSpinning |-> searchSpinner' = "inline-block"]
             /\ requests' = requests + 1
             /\ pc' = "awaitFetch"
             /\ UNCHANGED <<selectedFromStop, selectedToStop, searchInput,
                            fromStopInput, toStopInput, distanceResults,
                            alertMsg, response, data, result>>

\* A click on the search button; a disabled button dispatches no click.
SearchClick ==
    /\ ~MicrotaskPending
    /\ ~searchBtn.disabled
    /\ searchBtnOnClick
    /\ UNCHANGED callVars

\* A key pressed in the search box (script.js 296-300): Enter clicks the
\* button, any other key does nothing here.
SearchKeypress ==
    /\ ~MicrotaskPending
    /\ \E key \in {"Enter", "a"} :
          IF key = "Enter" /\ ~searchBtn.disabled
          THEN searchBtnOnClick
          ELSE UNCHANGED <<uiVars, netVars>>
    /\ UNCHANGED callVars

\* The network settles the fetch promise: no connection, or a response.
FetchSettles ==
    /\ pc = "awaitFetch"
    /\ response' \in {[kind |-> "rejected", ok |-> FALSE, status |-> 0],
                      [kind |-> "response", ok |-> FALSE, status |-> 404],
                      [kind |-> "response", ok |-> TRUE, status |-> 200]}
    /\ pc' = "fetchSettled"
    /\ UNCHANGED <<uiVars, request, requests, data, result, callVars>>

\* A searchNaPTANStops that answers a failed fetch and a status that is not
\* OK with the empty list.
AfterFetchSwallowing ==
    /\ pc = "fetchSettled"
    /\ IF response.kind = "rejected" \/ ~response.ok
       THEN /\ result' = Returned(<<>>)
            /\ pc' = "searchSettled"
       ELSE /\ result' = result
            /\ pc' = "awaitJson"
    /\ UNCHANGED <<uiVars, request, requests, response, data, callVars>>

\* searchNaPTANStops after `await fetch` (script.js 34-40, 50-53): a failed
\* fetch and a status that is not OK are rethrown by the catch block.
AfterFetch ==
    /\ pc = "fetchSettled"
    /\ IF response.kind = "rejected"
       THEN /\ result' = Threw("TypeError: Failed to fetch")
            /\ pc' = "searchSettled"
       ELSE IF ~response.ok
       THEN /\ result' = Threw("API Error")
            /\ pc' = "searchSettled"
       ELSE /\ result' = result
            /\ pc' = "awaitJson"
    /\ UNCHANGED <<uiVars, request, requests, response, data, callVars>>

\* The body arrives and response.json() settles: a parsed document, or a
\* SyntaxError for a body that is no JSON.
JsonSettles ==
    /\ pc = "awaitJson"
    /\ \/ \E b \in Bodies : data' = [kind |-> "parsed", body |-> b]
       \/ data' = [kind |-> "rejected", body |-> Undef]
    /\ pc' = "jsonSettled"
    /\ UNCHANGED <<uiVars, request, requests, response, result, callVars>>

\* searchNaPTANStops after `await response.json()` (script.js 40-53).
AfterJson ==
    /\ pc = "jsonSettled"
    /\ result' = IF data.kind = "rejected"
                 THEN Threw("SyntaxError: Unexpected token")
                 ELSE stopsOfData(data.body)
    /\ pc' = "searchSettled"
    /\ UNCHANGED <<uiVars, request, requests, response, data, callVars>>

\* A click listener that resets the button at the end of its try block, with
\* no finally block.
HandlerResumeNoFinally ==
    /\ pc = "searchSettled"
    /\ LET shown == displaySearchResults(result.stops)
       IN  IF result.kind = "threw" \/ shown.threw
           THEN /\ searchResults' =
                       showError("Failed to search stops. Please try again.")
                /\ UNCHANGED <<searchBtn, searchBtnText, searchSpinner>>
           ELSE /\ searchResults' = shown.panel
                /\ searchBtn' = [disabled |-> FALSE]
                /\ searchBtnText' = "inline"
                /\ searchSpinner' = "none"
    /\ pc' = "idle"
    /\ data' = NoData
    /\ result' = NoOutcome
    /\ UNCHANGED <<selectedFromStop, selectedToStop, searchInput,
                   fromStopInput, toStopInput, distanceResults, alertMsg,
                   request, requests, response, callVars>>

\* The click listener after its await (script.js 283-292): try, catch and
\* finally.
HandlerResume ==
    /\ pc = "searchSettled"
    /\ LET shown == displaySearchResults(result.stops)
       IN  searchResults' =
               IF result.kind = "threw" \/ shown.threw
               THEN showError("Failed to search stops. Please try again.")
               ELSE shown.panel
    /\ searchBtn' = [disabled |-> FALSE]
    /\ searchBtnText' = "inline"
    /\ searchSpinner' = "none"
    /\ pc' = "idle"
    /\ data' = NoData
    /\ result' = NoOutcome
    /\ UNCHANGED <<selectedFromStop, selectedToStop, searchInput,
                   fromStopInput, toStopInput, distanceResults, alertMsg,
                   request, requests, response, callVars>>

\* A useThisStop that stores every stop as the FROM stop.
useThisStopAlwaysFrom(stop) ==
    /\ selectedFromStop' = stop
    /\ fromStopInput' = stopLabel(stop)
    /\ toStopInput' =
           [toStopInput EXCEPT
              !.readOnly = FALSE,
              !.placeholder = "Search another stop and select it"]
    /\ alertMsg' = Alert("set as FROM stop", stopLabel(stop).commonName)
    /\ UNCHANGED selectedToStop

\* useThisStop (script.js 201-217).
useThisStop(stop) ==
    LET label == stopLabel(stop)
    IN  IF ~Truthy(selectedFromStop)
        THEN /\ selectedFromStop' = stop
             /\ fromStopInput' = label
             /\ toStopInput' =
                    [toStopInput EXCEPT
                       !.readOnly = FALSE,
                       !.placeholder = "Search another stop and select it"]
             /\ alertMsg' = Alert("set as FROM stop", label.commonName)
             /\ UNCHANGED selectedToStop
        ELSE /\ selectedToStop' = stop
             /\ toStopInput' = [toStopInput EXCEPT !.value = label]
             /\ alertMsg' = Alert("set as TO stop", label.commonName)
             /\ UNCHANGED <<selectedFromStop, fromStopInput>>

\* A click on the "Use This Stop" button of a card on display.
UseThisStop ==
    /\ ~MicrotaskPending
    /\ searchResults.kind = "cards"
    /\ \E i \in 1..Len(searchResults.cards) :
          /\ searchResults.cards[i].onclickIntact
          /\ useThisStop(searchResults.cards[i].onclickArg)
    /\ UNCHANGED <<searchInput, searchBtn, searchBtnText, searchSpinner,
                   searchResults, distanceResults, netVars, callVars>>

\* The click listener of calculateBtn (script.js 303-310).
CalculateClick ==
    /\ ~MicrotaskPending
    /\ IF ~Truthy(selectedFromStop) \/ ~Truthy(selectedToStop)
       THEN /\ alertMsg' =
                   Alert("Please select both FROM and TO stops first", Str(""))
            /\ UNCHANGED distanceResults
       ELSE /\ distanceResults' =
                   displayDistanceResults(selectedFromStop, selectedToStop)
            /\ UNCHANGED alertMsg
    /\ UNCHANGED <<selectedFromStop, selectedToStop, searchInput, searchBtn,
                   searchBtnText, searchSpinner, searchResults, fromStopInput,
                   toStopInput, netVars, callVars>>

Next ==
    \/ TypeQuery
    \/ SearchClick
    \/ SearchKeypress
    \/ FetchSettles
    \/ AfterFetch
    \/ JsonSettles
    \/ AfterJson
    \/ HandlerResume
    \/ UseThisStop
    \/ CalculateClick

Spec == Init /\ [][Next]_vars

\* The continuation of a settled promise is a queued microtask: it runs.
FairSpec ==
    /\ Spec
    /\ WF_vars(AfterFetch)
    /\ WF_vars(AfterJson)
    /\ WF_vars(HandlerResume)

(***************************************************************************)
(* Direct calls of the functions, on inputs drawn from bounded sets        *)
(***************************************************************************)

\* Longest stop list a direct call of stopsOfData is given.
MaxListLen == 11

\* Distances a direct call of estimateTravelTime is given: multiples of
\* 0.0125 miles up to MaxDistanceSteps of them.
MaxDistanceSteps == 400

Distances == {Dec(125 * i) : i \in 0..MaxDistanceSteps}

Modes == {Str("walking"), Str("cycling"), Str("bus"), Undef,
          Str("train"), Str(""), Null}

Latitudes == {Dec(-900000), Dec(-338688), Num(0), Dec(515074), Dec(900000)}

Longitudes == {Dec(-1800000), Dec(-22426), Num(0), Dec(1512093), Dec(1800000)}

ListBodies ==
    LET lists == SeqUpTo({StopOxford, StopPiccadilly}, MaxListLen)
    IN  {Arr(s) : s \in lists} \cup {Wrapper(Arr(s)) : s \in lists}
        \cup {Wrapper(Undef), Wrapper(Null), Wrapper(Str("X")), Null,
              Dec(70000), Str("X")}

\* The values a text property and a coordinate property are given.
TextValues == {Undef, Null, Str(""), Str("X"), Str("Y"), Num(7)}

CoordValues == {Undef, Null, Num(0), Dec(515074), Dec(-1278), Str("X")}

PairNames == {"ATCOCode", "CommonName", "LocalityName", "StopType", "Status",
              "Latitude", "Longitude"}

\* The stop that differs from base in one pair of properties.
WithPair(base, pair, first, second) ==
    CASE pair = "ATCOCode" ->
             [base EXCEPT !.ATCOCode = first, !.atcoCode = second]
      [] pair = "CommonName" ->
             [base EXCEPT !.CommonName = first, !.name = second]
      [] pair = "LocalityName" ->
             [base EXCEPT !.LocalityName = first, !.locality = second]
      [] pair = "StopType" ->
             [base EXCEPT !.StopType = first, !.stopType = second]
      [] pair = "Status" ->
             [base EXCEPT !.Status = first, !.status = second]
      [] pair = "Latitude" ->
             [base EXCEPT !.Latitude = first, !.latitude = second]
      [] pair = "Longitude" ->
             [base EXCEPT !.Longitude = first, !.longitude = second]

\* The first- and second-named property of a pair.
FirstOf(stop, pair) ==
    CASE pair = "ATCOCode" -> stop.ATCOCode
      [] pair = "CommonName" -> stop.CommonName
      [] pair = "LocalityName" -> stop.LocalityName
      [] pair = "StopType" -> stop.StopType
      [] pair = "Status" -> stop.Status
      [] pair = "Latitude" -> stop.Latitude
      [] pair = "Longitude" -> stop.Longitude

SecondOf(stop, pair) ==
    CASE pair = "ATCOCode" -> stop.atcoCode
      [] pair = "CommonName" -> stop.name
      [] pair = "LocalityName" -> stop.locality
      [] pair = "StopType" -> stop.stopType
      [] pair = "Status" -> stop.status
      [] pair = "Latitude" -> stop.latitude
      [] pair = "Longitude" -> stop.longitude

\* Stop records that vary one pair of properties over its values, and the
\* two stops with few properties.
FieldStops ==
    {StopStJohns, StopBare}
    \cup
    UNION {{WithPair(StopOxford, pair, v, w) : v, w \in TextValues}
              : pair \in PairNames \ {"Latitude", "Longitude"}}
    \cup
    UNION {{WithPair(StopOxford, pair, v, w) : v, w \in CoordValues}
              : pair \in {"Latitude", "Longitude"}}

Calls ==
    {[fn |-> "stopsOfData", data |-> d] : d \in ListBodies}
    \cup {[fn |-> "estimateTravelTime", distanceMiles |-> d, mode |-> m]
             : d \in Distances, m \in Modes}
    \cup {[fn |-> "calculateDistance", lat1 |-> a, lon1 |-> b, lat2 |-> c,
           lon2 |-> d] : a, c \in Latitudes, b, d \in Longitudes}
    \cup {[fn |-> "displaySearchResults", stop |-> s] : s \in FieldStops}
    \cup {[fn |-> "useThisStop", stop |-> s] : s \in FieldStops}
    \cup {[fn |-> "displayDistanceResults", fromStop |-> s, toStop |-> u]
             : s \in FieldStops, u \in {StopPiccadilly, StopBare}}
    \cup {[fn |-> "displayDistanceResults", fromStop |-> u, toStop |-> s]
             : s \in FieldStops, u \in {StopPiccadilly, StopBare}}

InitCall == InitPage /\ call \in Calls /\ ret = NoRet

Value(v) == [kind |-> "value", value |-> v]

CallStopsOfData ==
    /\ call.fn = "stopsOfData" /\ ret = NoRet
    /\ LET outcome == stopsOfData(call.data)
       IN  ret' = IF outcome.kind = "threw"
                  THEN [kind |-> "threw", error |-> outcome.error]
                  ELSE Value(outcome.stops)
    /\ UNCHANGED <<uiVars, netVars, call>>

CallEstimateTravelTime ==
    /\ call.fn = "estimateTravelTime" /\ ret = NoRet
    /\ ret' = Value(estimateTravelTime(call.distanceMiles, call.mode))
    /\ UNCHANGED <<uiVars, netVars, call>>

CallCalculateDistance ==
    /\ call.fn = "calculateDistance" /\ ret = NoRet
    /\ ret' = Value(calculateDistance(call.lat1, call.lon1, call.lat2, call.lon2))
    /\ UNCHANGED <<uiVars, netVars, call>>

\* displaySearchResults([stop]): the panel is written unless the call throws.
CallDisplaySearchResults ==
    /\ call.fn = "displaySearchResults" /\ ret = NoRet
    /\ LET shown == displaySearchResults(<<call.stop>>)
       IN  /\ searchResults' = IF shown.threw THEN searchResults ELSE shown.panel
           /\ ret' = IF shown.threw
                     THEN [kind |-> "threw", error |-> "TypeError"]
                     ELSE Value(Undef)
    /\ UNCHANGED <<selectedFromStop, selectedToStop, searchInput, searchBtn,
                   searchBtnText, searchSpinner, fromStopInput, toStopInput,
                   distanceResults, alertMsg, netVars, call>>

CallUseThisStop ==
    /\ call.fn = "useThisStop" /\ ret = NoRet
    /\ useThisStop(call.stop)
    /\ ret' = Value(Undef)
    /\ UNCHANGED <<searchInput, searchBtn, searchBtnText, searchSpinner,
                   searchResults, distanceResults, netVars, call>>

\* displayDistanceResults(fromStop, toStop); the call records the arguments
\* it handed to calculateDistance.
CallDisplayDistanceResults ==
    /\ call.fn = "displayDistanceResults" /\ ret = NoRet
    /\ distanceResults' = displayDistanceResults(call.fromStop, call.toStop)
    /\ ret' = Value(distanceArgs(call.fromStop, call.toStop))
    /\ UNCHANGED <<selectedFromStop, selectedToStop, searchInput, searchBtn,
                   searchBtnText, searchSpinner, searchResults, fromStopInput,
                   toStopInput, alertMsg, netVars, call>>

NextCall ==
    \/ CallStopsOfData
    \/ CallEstimateTravelTime
    \/ CallCalculateDistance
    \/ CallDisplaySearchResults
    \/ CallUseThisStop
    \/ CallDisplayDistanceResults

SpecCall == InitCall /\ [][NextCall]_vars

(***************************************************************************)
(* Properties of the page                                                  *)
(***************************************************************************)

\* C2: an empty or whitespace-only query is rejected. While the box holds
\* such a query and no search is in flight, no step issues a request, starts
\* a search, or changes the search-results panel or the button; and the step
\* that shows "Please enter a search term" changes nothing but the alert: no
\* request, no panel, no button state, neither selected stop.
C2_EmptyQueryRejected ==
    /\ [][(trim(searchInput) = "" /\ pc = "idle") =>
              /\ requests' = requests
              /\ request' = request
              /\ pc' = "idle"
              /\ result' = NoOutcome
              /\ searchResults' = searchResults
              /\ searchBtn' = searchBtn
              /\ searchBtnText' = searchBtnText
              /\ searchSpinner' = searchSpinner]_vars
    /\ [][(alertMsg' # alertMsg
           /\ alertMsg'.text = "Please enter a search term") =>
              /\ trim(searchInput) = ""
              /\ UNCHANGED <<selectedFromStop, selectedToStop, searchInput,
                             searchBtn, searchBtnText, searchSpinner,
                             searchResults, fromStopInput, toStopInput,
                             distanceResults, netVars>>]_vars

\* A whitespace-only query has been rejected on a page that shows the cards
\* of an earlier search and holds a selected stop.
C2_Witness ==
    /\ searchInput = "   "
    /\ alertMsg.text = "Please enter a search term"
    /\ searchResults.kind = "cards"
    /\ Truthy(selectedFromStop)
    /\ requests = 1
    /\ pc = "idle"

\* C7: searchNaPTANStops never retries and never suppresses a failure. A
\* request is issued only by the step that starts a search, one per search;
\* a rejected fetch and a status that is not OK settle the call with an
\* error and no stop list, without a further request; the click handler
\* then writes the error message into the search-results panel; and from
\* the click to that message neither selected stop changes.
C7_FailurePropagated ==
    /\ [][\/ requests' = requests /\ request' = request
          \/ requests' = requests + 1 /\ pc = "idle" /\ pc' = "awaitFetch"]_vars
    /\ [][(pc = "fetchSettled"
           /\ (response.kind = "rejected" \/ ~response.ok)) =>
              /\ result'.kind = "threw"
              /\ result'.stops = <<>>
              /\ pc' = "searchSettled"]_vars
    /\ [][(pc = "searchSettled" /\ result.kind = "threw") =>
              /\ searchResults' =
                     Panel("error", <<>>,
                           "Failed to search stops. Please try again.")
              /\ pc' = "idle"]_vars
    /\ [][pc # "idle" =>
              /\ selectedFromStop' = selectedFromStop
              /\ selectedToStop' = selectedToStop]_vars

\* The second search got a 404 and has ended with the error message on
\* display, with both stops of the first search still selected.
C7_Witness ==
    /\ pc = "idle"
    /\ response.kind = "response" /\ ~response.ok
    /\ searchResults.kind = "error"
    /\ requests = 2
    /\ Truthy(selectedFromStop)
    /\ Truthy(selectedToStop)

C10_ButtonFollowsSearch ==
    /\ [](pc # "idle" =>
              /\ searchBtn.disabled
              /\ searchSpinner = "inline-block"
              /\ searchBtnText = "none"
              /\ request.whileDisabled
              /\ request.whileSpinning)
    /\ [](pc = "idle" =>
              ~searchBtn.disabled /\ searchSpinner # "inline-block")
    /\ [][pc = "searchSettled" =>
              /\ pc' = "idle"
              /\ ~searchBtn'.disabled
              /\ searchSpinner' = "none"
              /\ searchBtnText' = "inline"]_vars
    /\ (pc = "searchSettled") ~> (pc = "idle" /\ ~searchBtn.disabled)

\* A search whose fetch was rejected has ended: the button is enabled again
\* and the spinner hidden.
C10_Witness ==
    /\ pc = "idle"
    /\ response.kind = "rejected"
    /\ requests = 1
    /\ ~searchBtn.disabled
    /\ searchSpinner = "none"
    /\ searchBtnText = "inline"

(***************************************************************************)
(* Properties of the functions                                             *)
(***************************************************************************)

\* C1: for every response body, searchNaPTANStops returns the first
\* min(10, n) elements of the body's stop list (the body when it is an array,
\* else its member array) in their order, and the empty list for a body of
\* neither shape.
C1_FirstTenOrEmpty ==
    (call.fn = "stopsOfData" /\ ret # NoRet) =>
        LET d == call.data
            list == IF d.t = "array" THEN d.items
                    ELSE IF d.t = "wrapper" /\ d.member.t = "array"
                         THEN d.member.items
                    ELSE <<>>
            n == Len(list)
            m == IF n < 10 THEN n ELSE 10
        IN  /\ ret.kind = "value"
            /\ Len(ret.value) = m
            /\ \A i \in 1..m : ret.value[i] = list[i]

\* C3: estimateTravelTime with a mode that is none of walking, cycling and
\* bus (and is not omitted) signals an error: it returns no value.
C3_UnknownModeSignalsError ==
    (call.fn = "estimateTravelTime" /\ ret # NoRet
     /\ call.mode \notin {Str("walking"), Str("cycling"), Str("bus"), Undef}) =>
        ret.kind = "threw"

\* C4: for a distance d >= 0 and a mode of the table, estimateTravelTime is
\* the integer nearest to 60 * d / speed (halves upward) with walking 3,
\* cycling 12 and bus 15 mph, it is not negative, 3 miles on foot take 60
\* minutes, and an omitted mode is walking.
C4_TravelTimeFormula ==
    (call.fn = "estimateTravelTime" /\ ret # NoRet
     /\ call.mode \in {Str("walking"), Str("cycling"), Str("bus"), Undef}) =>
        LET d == call.distanceMiles.n
            mph == CASE call.mode = Str("cycling") -> 12
                     [] call.mode = Str("bus") -> 15
                     [] OTHER -> 3
            minutes == (2 * 60 * d + mph * Scale) \div (2 * mph * Scale)
        IN  /\ ret.kind = "value"
            /\ ret.value = [t |-> "num", n |-> minutes * Scale, k |-> 1,
                            s |-> ""]
            /\ minutes >= 0
            /\ (d = 3 * Scale /\ mph = 3) => minutes = 60

\* Three miles on foot have been estimated at 60 minutes.
C4_Witness ==
    /\ call = [fn |-> "estimateTravelTime", distanceMiles |-> Num(3),
               mode |-> Str("walking")]
    /\ ret = Value(Num(60))

\* C5: when a stop carries the first-named variant of a property with a
\* value (0 and "" included), displaySearchResults, useThisStop and
\* displayDistanceResults use that value, whatever the second variant holds.
C5_FirstVariantWins ==
    LET Present(v) == v.t \notin {"undef", "null"}
    IN  /\ (call.fn = "displaySearchResults" /\ ret # NoRet
            /\ ret.kind = "value") =>
               LET s == call.stop
                   card == searchResults.cards[1]
               IN  /\ Present(s.ATCOCode) => card.atcoCode = Text(s.ATCOCode)
                   /\ Present(s.CommonName) =>
                          card.commonName = Text(s.CommonName)
                   /\ Present(s.LocalityName) =>
                          card.locality = Text(s.LocalityName)
                   /\ Present(s.StopType) => card.stopType = Text(s.StopType)
                   /\ Present(s.Status) => card.status = Text(s.Status)
                   /\ Present(s.Latitude) => card.lat = toFixed4(s.Latitude)
                   /\ Present(s.Longitude) => card.lon = toFixed4(s.Longitude)
        /\ (call.fn = "useThisStop" /\ ret # NoRet) =>
               LET s == call.stop
               IN  /\ Present(s.ATCOCode) =>
                          fromStopInput.atcoCode = Text(s.ATCOCode)
                   /\ Present(s.CommonName) =>
                          fromStopInput.commonName = Text(s.CommonName)
        /\ (call.fn = "displayDistanceResults" /\ ret # NoRet) =>
               LET f == call.fromStop
                   u == call.toStop
               IN  /\ Present(f.Latitude) => ret.value.lat1 = f.Latitude
                   /\ Present(f.Longitude) => ret.value.lon1 = f.Longitude
                   /\ Present(u.Latitude) => ret.value.lat2 = u.Latitude
                   /\ Present(u.Longitude) => ret.value.lon2 = u.Longitude
                   /\ Present(f.CommonName) =>
                          distanceResults.from = Text(f.CommonName)
                   /\ Present(u.CommonName) =>
                          distanceResults.to = Text(u.CommonName)

\* C6: a coordinate a stop lacks under both names is 0 wherever it is
\* consumed: the stop's search card shows 0.0000 for it, and
\* displayDistanceResults passes 0 for it to calculateDistance.
C6_AbsentCoordinateIsZero ==
    LET Absent(a, b) == a = Undef /\ b = Undef
    IN  /\ (call.fn = "displaySearchResults" /\ ret # NoRet) =>
               LET s == call.stop
               IN  /\ Absent(s.Latitude, s.latitude) =>
                          /\ ret.kind = "value"
                          /\ searchResults.cards[1].lat = toFixed4(Num(0))
                   /\ Absent(s.Longitude, s.longitude) =>
                          /\ ret.kind = "value"
                          /\ searchResults.cards[1].lon = toFixed4(Num(0))
        /\ (call.fn = "displayDistanceResults" /\ ret # NoRet) =>
               LET f == call.fromStop
                   u == call.toStop
               IN  /\ Absent(f.Latitude, f.latitude) => ret.value.lat1 = Num(0)
                   /\ Absent(f.Longitude, f.longitude) =>
                          ret.value.lon1 = Num(0)
                   /\ Absent(u.Latitude, u.latitude) => ret.value.lat2 = Num(0)
                   /\ Absent(u.Longitude, u.longitude) =>
                          ret.value.lon2 = Num(0)

\* C8: calculateDistance of a point and itself is 0 miles and 0 km exactly.
C8_IdentityIsZero ==
    (call.fn = "calculateDistance" /\ ret # NoRet
     /\ call.lat1 = call.lat2 /\ call.lon1 = call.lon2) =>
        /\ ret.kind = "value"
        /\ ret.value = [miles |-> Num(0), km |-> Num(0)]

\* The distance of (51.5074, 151.2093) to itself has been calculated.
C8_Witness ==
    /\ call = [fn |-> "calculateDistance", lat1 |-> Dec(515074),
               lon1 |-> Dec(1512093), lat2 |-> Dec(515074),
               lon2 |-> Dec(1512093)]
    /\ ret # NoRet
    /\ ret.value.miles = Num(0)

============================================================================
